---- MODULE Spec2Model ----
(***************************************************************************)
(* A model of src/app.py: the Birdeye fetchers (BirdeyeService), the       *)
(* Gemini assessor (AIService.analyze_wallet) and the Flask routes that    *)
(* use them (wallet_analyzer, tendances, gainers_losers).                  *)
(*                                                                         *)
(* Python values are modelled as follows.                                  *)
(*   - None is the string "None"; other strings are themselves.            *)
(*   - A JSON value is a record tagged by t: "null", "true", "false",      *)
(*     "num", "str" (with its text s), "list" (with its items) or "obj"    *)
(*     (with d, a function from the keys present to their values).  A key  *)
(*     that is absent is not in DOMAIN d.                                  *)
(*   - A call either returns or raises: [kind |-> "return", value |-> v]   *)
(*     or [kind |-> "raise", exc |-> <exception class>, msg |-> str(e)].   *)
(*   - A text (the collaborator's response.text) is a sequence of tokens:  *)
(*     "ws" (a whitespace character), "fence" (three backticks), "json"    *)
(*     (the word json), "prose" (any other word), and the JSON tokens      *)
(*     "{", "}", "[", "]", ",", "num", "str", "null" and, for an object   *)
(*     member "<key>": <string>, the key itself ("winrate", "summary").    *)
(***************************************************************************)
EXTENDS Integers, Sequences, FiniteSets, TLC

\* ------------------------------------------------------------------ bounds

\* Concurrent wallet-analyzer requests.
NumRequests == 2
\* Longest transaction list a provider payload carries.
MaxTxs == 2
\* Longest run of extraneous tokens before or after the body of a response.
MaxPad == 2

\* ------------------------------------------------------------ Python values

None == "None"

\* bool(s) of a str or None.
Truthy(s) == s # None /\ s # ""

JNull == [t |-> "null"]
JTrue == [t |-> "true"]
JFalse == [t |-> "false"]
JNum == [t |-> "num"]
Str(s) == [t |-> "str", s |-> s]
JList(items) == [t |-> "list", items |-> items]
JObj(d) == [t |-> "obj", d |-> d]

EmptyDict == [k \in {} |-> JNull]

Range(s) == {s[i] : i \in DOMAIN s}

Return(v) == [kind |-> "return", value |-> v]
Raise(e, m) == [kind |-> "raise", exc |-> e, msg |-> m]

IsDict(v) == v.t = "obj"

HasKey(v, k) == k \in DOMAIN v.d

\* v.get(k, default) on a dict v.
Get(v, k, default) == IF HasKey(v, k) THEN v.d[k] ELSE default

\* bool(v) of a JSON value.
PyTruthy(v) ==
  CASE v.t = "null" -> FALSE
    [] v.t = "false" -> FALSE
    [] v.t = "str" -> v.s # ""
    [] v.t = "list" -> v.items # <<>>
    [] v.t = "obj" -> DOMAIN v.d # {}
    [] OTHER -> TRUE

\* ------------------------------------------------------------------- texts

RECURSIVE LStrip(_)
LStrip(s) == IF s # <<>> /\ Head(s) = "ws" THEN LStrip(Tail(s)) ELSE s

RECURSIVE RStrip(_)
RStrip(s) ==
  IF s # <<>> /\ s[Len(s)] = "ws" THEN RStrip(SubSeq(s, 1, Len(s) - 1)) ELSE s

\* str.strip()
Strip(s) == RStrip(LStrip(s))

\* str.replace("```json", ""): every fence directly followed by the word json.
RECURSIVE RemoveFenceJson(_)
RemoveFenceJson(s) ==
  IF s = <<>> THEN <<>>
  ELSE IF Len(s) >= 2 /\ s[1] = "fence" /\ s[2] = "json"
       THEN RemoveFenceJson(SubSeq(s, 3, Len(s)))
       ELSE <<Head(s)>> \o RemoveFenceJson(Tail(s))

\* str.replace("```", "")
RemoveFence(s) == SelectSeq(s, LAMBDA c : c # "fence")

\* Clean with the two replacements swapped: the fences go first, and the
\* word json of a ```json fence stays.
CleanSwapped(s) == RemoveFenceJson(RemoveFence(Strip(s)))

\* response.text.strip().replace("```json", "").replace("```", "")
Clean(s) == RemoveFence(RemoveFenceJson(Strip(s)))

\* The keys the prompt asks for, and "error", which only the fallbacks carry.
PromptKeys == {"winrate", "pnl_usd", "top_tokens", "behavior", "copy_verdict",
               "summary"}

Members == PromptKeys \cup {"error"}

Scalars == {"num", "str", "null"}

ScalarValue(c) == IF c = "str" THEN Str("llm") ELSE [t |-> c]

\* The members of an object or the items of a list: none, or elements
\* separated by single commas.
Separated(s, elems) ==
  \/ s = <<>>
  \/ /\ Len(s) % 2 = 1
     /\ \A i \in 1..Len(s) : IF i % 2 = 1 THEN s[i] \in elems ELSE s[i] = ","

Elements(s) == {s[i] : i \in {j \in 1..Len(s) : j % 2 = 1}}

\* json.loads(s): the whole text must be one JSON value; whitespace between
\* tokens is skipped.
JsonLoads(s) ==
  LET b == SelectSeq(s, LAMBDA c : c # "ws")
      inner == SubSeq(b, 2, Len(b) - 1)
  IN  IF Len(b) = 1 /\ b[1] \in Scalars THEN Return(ScalarValue(b[1]))
      ELSE IF Len(b) >= 2 /\ b[1] = "{" /\ b[Len(b)] = "}"
                /\ Separated(inner, Members)
           THEN Return(JObj([k \in Elements(inner) |-> Str("llm")]))
      ELSE IF Len(b) >= 2 /\ b[1] = "[" /\ b[Len(b)] = "]"
                /\ Separated(inner, Scalars)
           THEN Return(JList([i \in 1..((Len(inner) + 1) \div 2) |->
                                ScalarValue(inner[2 * i - 1])]))
      ELSE Raise("JSONDecodeError", "Expecting value")

\* ------------------------------------------------------------ BirdeyeService

\* The outcome of requests.get, raise_for_status and response.json():
\* Return(payload), or Raise of a RequestException (a connection error, an
\* HTTP error status, and, since requests 2.27, a body that is not JSON) or
\* of a ValueError (a body that is not JSON, in an older requests).
CaughtByFetch(h) == h.exc = "RequestException"

\* data.get('data', {}).get(key, []) of a payload: the lookup raises when
\* the payload or its "data" is not a dict.
Lookup(payload, key) ==
  IF ~IsDict(payload) THEN Raise("AttributeError", "no attribute get")
  ELSE LET data == Get(payload, "data", JObj(EmptyDict))
       IN  IF ~IsDict(data) THEN Raise("AttributeError", "no attribute get")
           ELSE Return(Get(data, key, JList(<<>>)))

Pair(data, error) == [data |-> data, error |-> error]

\* get_wallet_transactions and get_trending_tokens share one shape: the
\* list under data[key] when the payload's "success" is truthy.
FetchList(h, key) ==
  IF h.kind = "raise"
  THEN IF CaughtByFetch(h) THEN Return(Pair(JList(<<>>), h.msg)) ELSE h
  ELSE IF ~IsDict(h.value) THEN Raise("AttributeError", "no attribute get")
  ELSE IF PyTruthy(Get(h.value, "success", JNull))
       THEN LET l == Lookup(h.value, key)
            IN  IF l.kind = "raise" THEN l ELSE Return(Pair(l.value, None))
       ELSE Return(Pair(JList(<<>>), "Reponse invalide"))

get_wallet_transactions(h) == FetchList(h, "items")

get_trending_tokens(h) == FetchList(h, "tokens")

\* One of the two fetches of get_gainers_losers: the items of the answer, or
\* the exception that ends the try block.  "success" is not looked at.
FetchItems(h) == IF h.kind = "raise" THEN h ELSE Lookup(h.value, "items")

\* GainersLosersExcept with the gainers already fetched kept in the record.
GainersLosersExceptPartial(e, fetched) ==
  Return(Pair(JObj(fetched), e.msg))

\* The except clause of get_gainers_losers, entered with exception e when
\* the lists in fetched are already there: they are dropped.
GainersLosersExcept(e, fetched) ==
  Return(Pair(JObj(EmptyDict), e.msg))

\* Line 92: both lists, and no error.
GainersLosersBoth(gainers, losers) ==
  Return(Pair(JObj([gainers |-> gainers, losers |-> losers]), None))

\* ----------------------------------------------------------------- AIService

\* One entry of simplified_txs: tx.get("token", {}).get("symbol") raises when
\* the transaction, or the "token" it carries, is not a dict.
Simplified(tx) ==
  IF ~IsDict(tx) THEN Raise("AttributeError", "no attribute get")
  ELSE LET token == Get(tx, "token", JObj(EmptyDict))
       IN  IF ~IsDict(token) THEN Raise("AttributeError", "no attribute get")
           ELSE Return(JObj([type |-> Get(tx, "tx_type", JNull),
                             token |-> Get(token, "symbol", JNull),
                             amount_usd |-> Get(tx, "amount_usd", JNull)]))

\* simplified_txs, built before the try block: the first entry that raises
\* ends the comprehension.
BuildPrompt(txs) ==
  IF \E i \in 1..Len(txs.items) : Simplified(txs.items[i]).kind = "raise"
  THEN Raise("AttributeError", "no attribute get")
  ELSE Return(JList([i \in 1..Len(txs.items) |-> Simplified(txs.items[i]).value]))

NotConfigured ==
  JObj([error |-> Str("Le service IA n'est pas configure."),
        summary |-> Str("Veuillez configurer la cle API Gemini.")])

Failed(e) ==
  JObj([error |-> Str("L'analyse par l'IA a echoue."), summary |-> Str(e.msg)])

\* ParseResponse with an except clause that names json.JSONDecodeError
\* alone: an exception of the call itself leaves analyze_wallet.
ParseResponseNarrow(o) ==
  IF o.kind = "raise" THEN o
  ELSE LET j == JsonLoads(Clean(o.value))
       IN  IF j.kind = "raise" THEN Return(Failed(j)) ELSE j

\* The try block: o is the outcome of model.generate_content(prompt) and
\* response.text.  Every Exception ends in the except clause.
ParseResponse(o) ==
  IF o.kind = "raise" THEN Return(Failed(o))
  ELSE LET j == JsonLoads(Clean(o.value))
       IN  IF j.kind = "raise" THEN Return(Failed(j)) ELSE j

\* Lines 112-140 as one call: m is the handle, txs the transactions, o the
\* outcome of the collaborator call (looked at only when the call is made).
analyze_wallet(m, txs, o) ==
  IF ~Truthy(m) THEN Return(NotConfigured)
  ELSE IF BuildPrompt(txs).kind = "raise" THEN BuildPrompt(txs)
  ELSE ParseResponse(o)

\* ------------------------------------------------------------------ inputs

Absent == [t |-> "absent"]

\* The dict of the keys of f whose value is not Absent.
MkObj(f) == JObj([k \in {x \in DOMAIN f : f[x] # Absent} |-> f[k]])

Tx(token) ==
  MkObj([tx_type |-> Str("swap"), token |-> token, amount_usd |-> JNum])

Txs == {Tx(JObj([symbol |-> Str("SOL")])), Tx(Absent), Tx(JNull)}

SeqsUpTo(S, n) == UNION {[1..k -> S] : k \in 0..n}

Payload(success, data) == MkObj([success |-> success, data |-> data])

DataOf(key, lists) ==
  {Absent, JNull, JObj(EmptyDict), JObj((key :> JNull))}
    \cup {JObj((key :> JList(l))) : l \in lists}

RequestFailures ==
  {Raise("RequestException", m) : m \in {"timeout", ""}}
    \cup {Raise("ValueError", "Expecting value")}

\* What a Birdeye endpoint can answer with, for the list under data[key].
HttpOutcomes(key, lists) ==
  RequestFailures
    \cup {Return(JList(<<>>))}
    \cup {Return(Payload(s, d)) : s \in {Absent, JTrue, JFalse},
                                  d \in DataOf(key, lists)}

TxLists == SeqsUpTo(Txs, MaxTxs)

\* A trending token: the fields tendances reads, none of them, or no dict.
Tokens ==
  {JObj([name |-> Str("Bonk"), symbol |-> Str("BONK"), price |-> JNum,
         priceChange24h |-> Str("n/a"), address |-> Str("addr")]),
   JObj(EmptyDict), JNull}

TokenLists == SeqsUpTo(Tokens, MaxTxs)

MarketPairs == {JObj([symbol |-> Str("SOL")]), JNull}

MarketPairLists == SeqsUpTo(MarketPairs, MaxTxs)

\* The answers the concurrent requests draw from: one of each kind.
WalletHttpCore ==
  HttpOutcomes("items", {<<>>, <<Tx(JObj([symbol |-> Str("SOL")]))>>,
                         <<Tx(Absent), Tx(JNull)>>})

ObjText(keys) ==
  <<"{">> \o [i \in 1..(2 * Len(keys) - 1) |->
                IF i % 2 = 1 THEN keys[(i + 1) \div 2] ELSE ","] \o <<"}">>

FullObject ==
  ObjText(<<"winrate", "pnl_usd", "top_tokens", "behavior", "copy_verdict",
            "summary">>)

\* The JSON (and not quite JSON) bodies a response is built around.
Bodies ==
  {FullObject, ObjText(<<"summary">>), <<"{", "}">>, <<"[", "num", "]">>,
   <<"num">>, <<"null">>, <<"prose">>, <<"{", "summary", ",", "}">>}

Pads == SeqsUpTo({"ws", "fence", "json", "prose"}, MaxPad)

\* The outcomes of the collaborator call the concurrent requests draw from.
AiCore ==
  {Raise("GoogleAPIError", "quota")}
    \cup {Return(b) : b \in Bodies}
    \cup {Return(<<"fence", "json", "ws">> \o FullObject \o <<"ws", "fence">>),
          Return(<<"prose">> \o FullObject)}

\* ------------------------------------------------------------------- state

Reqs == 1..NumRequests

VARIABLES
  model,        \* the module-level Gemini handle: "configured" or None
  model0,       \* history: the handle as start-up left it
  req,          \* req[r]: the request's method and form field
  pc,           \* pc[r]: where request r is in wallet_analyzer
  http,         \* http[r]: what the provider answered to r's fetch
  transactions, \* transactions[r], error[r]: wallet_analyzer's locals
  error,
  aiOutcome,    \* aiOutcome[r]: what the collaborator call of r ended with
  aiCalls,      \* history: the collaborator calls r has made
  analysis,     \* analysis[r]: what analyze_wallet returned to r
  page,         \* page[r]: the response of r
  escaped,      \* escaped[r]: the exception that left the view, or None
  steps,        \* history: the steps r has taken, in order
  froute,       \* the call under way: a fetcher or a route that fetches
  fpc,          \* where that call is
  fhttp,        \* history: what the provider answered to it, in order
  gainers_data, \* get_gainers_losers' local, once the first fetch is done
  fret,         \* what the fetcher returned or raised
  fpage,        \* the response of the route
  aiText,       \* the response the assessor is given on its own: the body
                \* and what surrounds it
  aiResult,     \* what analyze_wallet returned or raised for it
  apc           \* where that call is

wvars == <<model, model0, req, pc, http, transactions, error, aiOutcome,
           aiCalls, analysis, page, escaped, steps>>

fvars == <<froute, fpc, fhttp, gainers_data, fret, fpage>>

avars == <<aiText, aiResult, apc>>

vars == <<wvars, fvars, avars>>

Unset == [t |-> "unset"]

Pending == [template |-> "pending"]

Requests ==
  {[method |-> "GET", wallet |-> <<>>]}
    \cup {[method |-> "POST", wallet |-> w] :
            w \in {<<>>, <<"ws">>, <<"ws", "addr">>}}

Idle ==
  /\ froute = "none"
  /\ fpc = "start"
  /\ fhttp = <<>>
  /\ gainers_data = Unset
  /\ fret = Unset
  /\ fpage = Pending
  /\ aiText = Unset
  /\ aiResult = Unset
  /\ apc = "start"

\* Lines 16-24: the handle is set once, when the module is imported.
Init ==
  /\ Idle
  /\ model \in {"configured", None}
  /\ model0 = model
  /\ req \in [Reqs -> Requests]
  /\ pc = [r \in Reqs |-> "start"]
  /\ http = [r \in Reqs |-> Unset]
  /\ transactions = [r \in Reqs |-> Unset]
  /\ error = [r \in Reqs |-> None]
  /\ aiOutcome = [r \in Reqs |-> Unset]
  /\ aiCalls = [r \in Reqs |-> 0]
  /\ analysis = [r \in Reqs |-> Unset]
  /\ page = [r \in Reqs |-> Pending]
  /\ escaped = [r \in Reqs |-> None]
  /\ steps = [r \in Reqs |-> <<>>]

\* ------------------------------------------------------------------ routes

FormPage == [template |-> "wallet_analyzer.html"]

ErrorPage(msg) == [template |-> "wallet_analyzer.html", error |-> msg]

ResultsPage(a, w, t) ==
  [template |-> "wallet_results.html", analysis |-> a, wallet_address |-> w,
   transactions |-> t]

\* Lines 186-187: what Flask answers when an exception leaves a view.
ServerErrorPage == [template |-> "server_error", status |-> "500"]

\* Line 171: error or not transactions
FetchUnusable(t, e) == Truthy(e) \/ ~PyTruthy(t)

\* Line 172: error or 'Aucune transaction trouvee.'
FetchMessage(e) == IF Truthy(e) THEN e ELSE "Aucune transaction trouvee."

\* An exception leaves the view of request r.
Escape(r, e) ==
  /\ escaped' = [escaped EXCEPT ![r] = e.exc]
  /\ page' = [page EXCEPT ![r] = ServerErrorPage]
  /\ pc' = [pc EXCEPT ![r] = "done"]

\* The view of request r returns page p.
Respond(r, p) ==
  /\ page' = [page EXCEPT ![r] = p]
  /\ pc' = [pc EXCEPT ![r] = "done"]
  /\ UNCHANGED escaped

\* Lines 165-168: a GET, or a POST without an address, is answered at once.
Enter(r) ==
  /\ pc[r] = "start"
  /\ IF req[r].method # "POST"
     THEN Respond(r, FormPage) /\ steps' = [steps EXCEPT ![r] = @ \o <<"result">>]
     ELSE IF Strip(req[r].wallet) = <<>>
     THEN /\ Respond(r, ErrorPage("L'adresse du wallet est requise."))
          /\ steps' = [steps EXCEPT ![r] = @ \o <<"result">>]
     ELSE /\ pc' = [pc EXCEPT ![r] = "fetch"]
          /\ UNCHANGED <<page, escaped, steps>>
  /\ UNCHANGED <<model, model0, req, http, transactions, error, aiOutcome,
                 aiCalls, analysis>>
  /\ UNCHANGED <<fvars, avars>>

\* Lines 170-172: the fetch, and the early return on an error or on nothing.
Fetch(r) ==
  /\ pc[r] = "fetch"
  /\ \E h \in WalletHttpCore :
       LET o == get_wallet_transactions(h)
       IN  /\ http' = [http EXCEPT ![r] = h]
           /\ IF o.kind = "raise"
              THEN /\ Escape(r, o)
                   /\ steps' = [steps EXCEPT ![r] = @ \o <<"fetch", "raise">>]
                   /\ UNCHANGED <<transactions, error>>
              ELSE /\ transactions' = [transactions EXCEPT ![r] = o.value.data]
                   /\ error' = [error EXCEPT ![r] = o.value.error]
                   /\ IF FetchUnusable(o.value.data, o.value.error)
                      THEN /\ Respond(r, ErrorPage(FetchMessage(o.value.error)))
                           /\ steps' = [steps EXCEPT ![r] = @ \o <<"fetch", "result">>]
                      ELSE /\ pc' = [pc EXCEPT ![r] = "analyze"]
                           /\ steps' = [steps EXCEPT ![r] = @ \o <<"fetch">>]
                           /\ UNCHANGED <<page, escaped>>
  /\ UNCHANGED <<model, model0, req, aiOutcome, aiCalls, analysis>>
  /\ UNCHANGED <<fvars, avars>>

\* Lines 113-120: analyze_wallet up to the try block.
AnalyzeEnter(r) ==
  /\ pc[r] = "analyze"
  /\ IF ~Truthy(model)
     THEN /\ analysis' = [analysis EXCEPT ![r] = NotConfigured]
          /\ pc' = [pc EXCEPT ![r] = "render"]
          /\ steps' = [steps EXCEPT ![r] = @ \o <<"assess">>]
          /\ UNCHANGED <<page, escaped>>
     ELSE LET built == BuildPrompt(transactions[r])
          IN  IF built.kind = "raise"
              THEN /\ Escape(r, built)
                   /\ steps' = [steps EXCEPT ![r] = @ \o <<"assess", "raise">>]
                   /\ UNCHANGED analysis
              ELSE /\ pc' = [pc EXCEPT ![r] = "call"]
                   /\ steps' = [steps EXCEPT ![r] = @ \o <<"assess">>]
                   /\ UNCHANGED <<analysis, page, escaped>>
  /\ UNCHANGED <<model, model0, req, http, transactions, error, aiOutcome,
                 aiCalls>>
  /\ UNCHANGED <<fvars, avars>>

\* ModelAfterCall with a handle that a failed call switches off.
ModelAfterCallReset(o) == IF o.kind = "raise" THEN None ELSE model

\* AfterCall with a second attempt after a call that raised.
AfterCallRetry(o) == IF o.kind = "raise" THEN "call" ELSE "render"

\* analyze_wallet assigns the handle nowhere: it is after the call what it
\* was before.
ModelAfterCall(o) == model

\* Where analyze_wallet goes after the try block: back to its caller.
AfterCall(o) == "render"

\* Lines 134-140: the one collaborator call and the parse of what it gave.
AICall(r) ==
  /\ pc[r] = "call"
  /\ \E o \in AiCore :
       LET got == IF Truthy(model) THEN o
                  ELSE Raise("AttributeError", "no attribute generate_content")
           ret == ParseResponse(got)
       IN  /\ aiOutcome' = [aiOutcome EXCEPT ![r] = got]
           /\ aiCalls' = [aiCalls EXCEPT ![r] = @ + 1]
           /\ model' = ModelAfterCall(got)
           /\ IF ret.kind = "raise"
              THEN /\ Escape(r, ret)
                   /\ steps' = [steps EXCEPT ![r] = @ \o <<"call", "raise">>]
                   /\ UNCHANGED analysis
              ELSE /\ analysis' = [analysis EXCEPT ![r] = ret.value]
                   /\ pc' = [pc EXCEPT ![r] = AfterCall(got)]
                   /\ steps' = [steps EXCEPT ![r] = @ \o <<"call">>]
                   /\ UNCHANGED <<page, escaped>>
  /\ UNCHANGED <<model0, req, http, transactions, error>>
  /\ UNCHANGED <<fvars, avars>>

\* Lines 176-179: the result page.
Render(r) ==
  /\ pc[r] = "render"
  /\ Respond(r, ResultsPage(analysis[r], Strip(req[r].wallet), transactions[r]))
  /\ steps' = [steps EXCEPT ![r] = @ \o <<"result">>]
  /\ UNCHANGED <<model, model0, req, http, transactions, error, aiOutcome,
                 aiCalls, analysis>>
  /\ UNCHANGED <<fvars, avars>>

Next ==
  \E r \in Reqs : Enter(r) \/ Fetch(r) \/ AnalyzeEnter(r) \/ AICall(r) \/ Render(r)

Spec == Init /\ [][Next]_vars

\* ------------------------------------------- the fetchers on their own

InitFetch ==
  /\ model = None
  /\ model0 = None
  /\ req = [r \in Reqs |-> [method |-> "GET", wallet |-> <<>>]]
  /\ pc = [r \in Reqs |-> "start"]
  /\ http = [r \in Reqs |-> Unset]
  /\ transactions = [r \in Reqs |-> Unset]
  /\ error = [r \in Reqs |-> None]
  /\ aiOutcome = [r \in Reqs |-> Unset]
  /\ aiCalls = [r \in Reqs |-> 0]
  /\ analysis = [r \in Reqs |-> Unset]
  /\ page = [r \in Reqs |-> Pending]
  /\ escaped = [r \in Reqs |-> None]
  /\ steps = [r \in Reqs |-> <<>>]
  /\ froute \in {"get_wallet_transactions", "tendances", "gainers_losers"}
  /\ fpc = "start"
  /\ fhttp = <<>>
  /\ gainers_data = Unset
  /\ fret = Unset
  /\ fpage = Pending
  /\ aiText = Unset
  /\ aiResult = Unset
  /\ apc = "start"

\* Lines 65-75, over every answer of the endpoint.
WalletFetch ==
  /\ froute = "get_wallet_transactions" /\ fpc = "start"
  /\ \E h \in HttpOutcomes("items", TxLists) :
       /\ fhttp' = <<h>>
       /\ fret' = get_wallet_transactions(h)
  /\ fpc' = "returned"
  /\ UNCHANGED <<froute, gainers_data, fpage>>
  /\ UNCHANGED <<wvars, avars>>

\* Line 149.
TrendingFetch ==
  /\ froute = "tendances" /\ fpc = "start"
  /\ \E h \in HttpOutcomes("tokens", TokenLists) :
       /\ fhttp' = <<h>>
       /\ fret' = get_trending_tokens(h)
  /\ fpc' = "returned"
  /\ UNCHANGED <<froute, gainers_data, fpage>>
  /\ UNCHANGED <<wvars, avars>>

\* One entry of transformed_data: token.get raises on what is not a dict.
Transformed(token) ==
  IF ~IsDict(token) THEN Raise("AttributeError", "no attribute get")
  ELSE Return(JObj([logo |-> Get(token, "logoURI", JNull),
                    name |-> Get(token, "name", JNull),
                    symbol |-> Get(token, "symbol", JNull),
                    price_usd |-> Get(token, "price", JNull),
                    price_change_24h_percent |-> Get(token, "priceChange24h", JNull),
                    token_address |-> Get(token, "address", JNull),
                    market_cap |-> Get(token, "mc", JNull)]))

\* Lines 151-155: the comprehension over trending_data, which raises when
\* trending_data is no list or holds what is not a dict.
TransformAll(data) ==
  IF data.t # "list" THEN Raise("TypeError", "not iterable")
  ELSE IF \E i \in 1..Len(data.items) : Transformed(data.items[i]).kind = "raise"
  THEN Raise("AttributeError", "no attribute get")
  ELSE Return(JList([i \in 1..Len(data.items) |-> Transformed(data.items[i]).value]))

\* Lines 151-156.
TendancesRender ==
  /\ froute = "tendances" /\ fpc = "returned"
  /\ LET mapped == IF fret.kind = "raise" THEN fret
                   ELSE TransformAll(fret.value.data)
     IN  fpage' = IF mapped.kind = "raise" THEN ServerErrorPage
                  ELSE [template |-> "tendances.html",
                        trending_data |-> mapped.value,
                        error |-> fret.value.error]
  /\ fpc' = "done"
  /\ UNCHANGED <<froute, fhttp, gainers_data, fret>>
  /\ UNCHANGED <<wvars, avars>>

\* Lines 83-85: the first fetch.  A request that fails ends the call in the
\* except clause; any other exception leaves the function.
GainersFetch ==
  /\ froute = "gainers_losers" /\ fpc = "start"
  /\ \E h \in HttpOutcomes("items", MarketPairLists) :
       LET items == FetchItems(h)
       IN  /\ fhttp' = <<h>>
           /\ IF items.kind = "return"
              THEN /\ gainers_data' = items.value
                   /\ fpc' = "losers"
                   /\ UNCHANGED fret
              ELSE /\ fret' = IF CaughtByFetch(items)
                              THEN GainersLosersExcept(items, EmptyDict)
                              ELSE items
                   /\ fpc' = "returned"
                   /\ UNCHANGED gainers_data
  /\ UNCHANGED <<froute, fpage>>
  /\ UNCHANGED <<wvars, avars>>

\* Lines 88-95: the second fetch, and the return.
LosersFetch ==
  /\ froute = "gainers_losers" /\ fpc = "losers"
  /\ \E h \in HttpOutcomes("items", MarketPairLists) :
       LET items == FetchItems(h)
       IN  /\ fhttp' = fhttp \o <<h>>
           /\ fret' = IF items.kind = "return"
                      THEN GainersLosersBoth(gainers_data, items.value)
                      ELSE IF CaughtByFetch(items)
                      THEN GainersLosersExcept(items, [gainers |-> gainers_data])
                      ELSE items
  /\ fpc' = "returned"
  /\ UNCHANGED <<froute, gainers_data, fpage>>
  /\ UNCHANGED <<wvars, avars>>

\* Lines 160-161.
GainersLosersRender ==
  /\ froute = "gainers_losers" /\ fpc = "returned"
  /\ fpage' = IF fret.kind = "raise" THEN ServerErrorPage
              ELSE [template |-> "gainers_losers.html",
                    data |-> fret.value.data, error |-> fret.value.error]
  /\ fpc' = "done"
  /\ UNCHANGED <<froute, fhttp, gainers_data, fret>>
  /\ UNCHANGED <<wvars, avars>>

NextFetch ==
  \/ WalletFetch
  \/ TrendingFetch
  \/ TendancesRender
  \/ GainersFetch
  \/ LosersFetch
  \/ GainersLosersRender

SpecFetch == InitFetch /\ [][NextFetch]_vars

\* ------------------------------------------- the assessor on its own

InitParse ==
  /\ model = "configured"
  /\ model0 = "configured"
  /\ req = [r \in Reqs |-> [method |-> "GET", wallet |-> <<>>]]
  /\ pc = [r \in Reqs |-> "start"]
  /\ http = [r \in Reqs |-> Unset]
  /\ transactions = [r \in Reqs |-> Unset]
  /\ error = [r \in Reqs |-> None]
  /\ aiOutcome = [r \in Reqs |-> Unset]
  /\ aiCalls = [r \in Reqs |-> 0]
  /\ analysis = [r \in Reqs |-> Unset]
  /\ page = [r \in Reqs |-> Pending]
  /\ escaped = [r \in Reqs |-> None]
  /\ steps = [r \in Reqs |-> <<>>]
  /\ Idle

OneTransaction == JList(<<Tx(JObj([symbol |-> Str("SOL")]))>>)

TextOf(a) == a.pre \o a.body \o a.post

\* analyze_wallet on a response text: a body with up to MaxPad tokens
\* before it and after it.
AssessText ==
  /\ apc = "start"
  /\ \E pre \in Pads, body \in Bodies, post \in Pads :
       LET a == [kind |-> "text", pre |-> pre, body |-> body, post |-> post]
       IN  /\ aiText' = a
           /\ aiResult' = analyze_wallet(model, OneTransaction, Return(TextOf(a)))
  /\ apc' = "done"
  /\ UNCHANGED <<wvars, fvars>>

\* analyze_wallet when the call, or reading response.text, raises.
AssessRaise ==
  /\ apc = "start"
  /\ \E e \in {Raise("GoogleAPIError", "quota"), Raise("ValueError", "blocked")} :
       /\ aiText' = [kind |-> "raise", exc |-> e.exc]
       /\ aiResult' = analyze_wallet(model, OneTransaction, e)
  /\ apc' = "done"
  /\ UNCHANGED <<wvars, fvars>>

NextParse == AssessText \/ AssessRaise

SpecParse == InitParse /\ [][NextParse]_vars

\* ------------------------------------------------- claims on wallet_analyzer

Finished(r) == pc[r] \in {"render", "done"}

\* The collaborator call of r gave nothing that parses as JSON once the
\* fences are stripped, or was never made for want of a model.
NoJson(r) ==
  \/ ~Truthy(model0) /\ "assess" \in Range(steps[r])
  \/ /\ aiCalls[r] >= 1
     /\ \/ aiOutcome[r].kind = "raise"
        \/ JsonLoads(Clean(aiOutcome[r].value)).kind = "raise"

IsFallback(a) ==
  /\ IsDict(a)
  /\ DOMAIN a.d = {"error", "summary"}
  /\ a.d["error"] \in {Str("L'analyse par l'IA a echoue."),
                       Str("Le service IA n'est pas configure.")}

ReturnedResults(r) ==
  /\ escaped[r] = None
  /\ page[r].template = "wallet_results.html"
  /\ page[r].analysis = analysis[r]
  /\ page[r].transactions = transactions[r]

\* C1 as stated: without JSON from the collaborator the assessor returns the
\* fallback with verdict ERROR and hype score 0, and the request completes.
C1_AsStated ==
  \A r \in Reqs :
    NoJson(r) /\ pc[r] = "done" =>
      /\ ReturnedResults(r)
      /\ HasKey(analysis[r], "final_verdict")
      /\ analysis[r].d["final_verdict"] = Str("ERROR")
      /\ HasKey(analysis[r], "hype_score")
      /\ analysis[r].d["hype_score"] = [t |-> "num", n |-> 0]

\* C1, amended: without JSON from the collaborator (text that does not parse
\* once the fences are stripped, an exception of the call, no model) nothing
\* leaves analyze_wallet: it returns a record of an "error" message and a
\* "summary" (no verdict, no hype score), and wallet_analyzer returns the
\* result page with it.
C1_FallbackReturned ==
  \A r \in Reqs :
    NoJson(r) /\ Finished(r) =>
      /\ escaped[r] = None
      /\ IsFallback(analysis[r])
      /\ ~HasKey(analysis[r], "final_verdict")
      /\ ~HasKey(analysis[r], "hype_score")
      /\ pc[r] = "done" => ReturnedResults(r)

C1_Witness ==
  \E r \in Reqs :
    /\ pc[r] = "done"
    /\ aiCalls[r] = 1
    /\ aiOutcome[r] = Return(<<"prose">>)
    /\ ReturnedResults(r)
    /\ IsFallback(page[r].analysis)

\* C2 as stated: what the assessor hands back after a call is the fallback
\* unless the response is a JSON object with every key asked for.
C2_AsStated ==
  \A r \in Reqs :
    aiCalls[r] >= 1 /\ Finished(r) =>
      \/ IsFallback(analysis[r])
      \/ IsDict(analysis[r]) /\ PromptKeys \subseteq DOMAIN analysis[r].d

\* C4 as stated: whatever fields a payload that is a JSON object has or
\* lacks, no exception leaves the view.
C4_AsStated ==
  \A r \in Reqs :
    http[r] # Unset /\ http[r].kind = "return" /\ IsDict(http[r].value) =>
      escaped[r] = None

Rank(step) ==
  CASE step = "fetch" -> 1
    [] step = "assess" -> 2
    [] step = "call" -> 3
    [] OTHER -> 4

C6_AsStated ==
  \A r \in Reqs :
    pc[r] = "done" /\ http[r] # Unset =>
      LET o == get_wallet_transactions(http[r])
      IN  IF o.kind = "return" /\ FetchUnusable(o.value.data, o.value.error)
          THEN /\ page[r] = ErrorPage(FetchMessage(o.value.error))
               /\ aiCalls[r] = 0
               /\ escaped[r] = None
          ELSE ReturnedResults(r)

\* wallet_analyzer run alone: the page for request q under handle m, when
\* the provider answers h and the collaborator o.
RunAlone(m, q, h, o) ==
  IF q.method # "POST" THEN FormPage
  ELSE IF Strip(q.wallet) = <<>>
  THEN ErrorPage("L'adresse du wallet est requise.")
  ELSE LET f == get_wallet_transactions(h)
       IN  IF f.kind = "raise" THEN ServerErrorPage
           ELSE IF FetchUnusable(f.value.data, f.value.error)
           THEN ErrorPage(FetchMessage(f.value.error))
           ELSE LET a == analyze_wallet(m, f.value.data, o)
                IN  IF a.kind = "raise" THEN ServerErrorPage
                    ELSE ResultsPage(a.value, Strip(q.wallet), f.value.data)

\* C8: the handle stays what start-up made it, and in every interleaving
\* each request ends with the page it would end with alone, on the same
\* form, provider answer and collaborator response.
C8_RequestsIndependent ==
  /\ model = model0
  /\ \A r \in Reqs :
       pc[r] = "done" => page[r] = RunAlone(model0, req[r], http[r], aiOutcome[r])

C8_Witness ==
  \E r1, r2 \in Reqs :
    /\ r1 # r2
    /\ pc[r1] = "done" /\ pc[r2] = "done"
    /\ aiCalls[r1] = 1 /\ aiCalls[r2] = 1
    /\ aiOutcome[r1].kind = "raise"
    /\ aiOutcome[r2] = Return(FullObject)
    /\ steps[r1] = steps[r2]
    /\ page[r1] # page[r2]

\* ------------------------------------------------- claims on the fetchers

GainersLosersReturned ==
  froute = "gainers_losers" /\ fpc \in {"returned", "done"} /\ fret.kind = "return"

RequestFailed(h) == h.kind = "raise" /\ h.exc = "RequestException"

\* C9: get_gainers_losers returns both lists and no error, or the empty
\* record and an error; a losers fetch that fails drops the gainers already
\* fetched, and no losers fetch follows a gainers fetch that failed.
C9_AllOrNothing ==
  /\ GainersLosersReturned =>
       \/ /\ fret.value.error = None
          /\ DOMAIN fret.value.data.d = {"gainers", "losers"}
          /\ Len(fhttp) = 2
          /\ fret.value.data.d["gainers"] = FetchItems(fhttp[1]).value
          /\ fret.value.data.d["losers"] = FetchItems(fhttp[2]).value
       \/ /\ fret.value.error # None
          /\ fret.value.data = JObj(EmptyDict)
          /\ RequestFailed(fhttp[Len(fhttp)])
  /\ froute = "gainers_losers" /\ Len(fhttp) = 2 =>
       /\ FetchItems(fhttp[1]).kind = "return"
       /\ RequestFailed(fhttp[2]) => fret = Return(Pair(JObj(EmptyDict), fhttp[2].msg))

C9_Witness ==
  /\ froute = "gainers_losers" /\ fpc = "done"
  /\ Len(fhttp) = 2
  /\ gainers_data.t = "list" /\ gainers_data.items # <<>>
  /\ RequestFailed(fhttp[2])
  /\ fpage.data = JObj(EmptyDict)
  /\ fpage.error = "timeout"

SuccessFalse(h) ==
  h.kind = "return" /\ IsDict(h.value) /\ Get(h.value, "success", JNull) = JFalse

\* C10 as stated: every fetcher returns data that is non-empty only when
\* the error is None, and the empty data with an error whenever a request
\* failed or an answer's success flag is false.
C10_AsStated ==
  fpc \in {"returned", "done"} /\ fret.kind = "return" =>
    /\ PyTruthy(fret.value.data) => fret.value.error = None
    /\ (\E i \in DOMAIN fhttp : RequestFailed(fhttp[i]) \/ SuccessFalse(fhttp[i])) =>
         ~PyTruthy(fret.value.data) /\ fret.value.error # None

\* ------------------------------------------------- claims on the assessor

Assessed == apc = "done" /\ aiText.kind = "text"

IsObjectText(b) == JsonLoads(b).kind = "return" /\ IsDict(JsonLoads(b).value)

FirstIndex(s, c) == CHOOSE i \in 1..Len(s) : s[i] = c /\ \A j \in 1..(i - 1) : s[j] # c

LastIndex(s, c) == CHOOSE i \in 1..Len(s) : s[i] = c /\ \A j \in (i + 1)..Len(s) : s[j] # c

\* The text from the first "{" to the last "}".
BetweenBraces(s) == SubSeq(s, FirstIndex(s, "{"), LastIndex(s, "}"))

\* Whitespace, ``` and ```json, and nothing else.
MarkersOnly(p) ==
  \A i \in 1..Len(p) :
    \/ p[i] \in {"ws", "fence"}
    \/ p[i] = "json" /\ i > 1 /\ p[i - 1] = "fence"

\* C3 as stated: whatever surrounds a valid JSON object, the result is the
\* object between the first "{" and the last "}".
C3_AsStated ==
  Assessed /\ IsObjectText(aiText.body) =>
    aiResult = JsonLoads(BetweenBraces(TextOf(aiText)))

\* C3, amended: a valid JSON object surrounded by whitespace and markdown
\* fences (``` and ```json) alone is the result; with any other text before
\* or after it the result is the fallback.
C3_FencesTolerated ==
  Assessed /\ IsObjectText(aiText.body) =>
    IF MarkersOnly(aiText.pre) /\ MarkersOnly(aiText.post)
    THEN /\ aiResult = JsonLoads(aiText.body)
         /\ aiResult = JsonLoads(BetweenBraces(TextOf(aiText)))
    ELSE /\ aiResult.kind = "return"
         /\ IsFallback(aiResult.value)

C3_Witness ==
  /\ Assessed
  /\ aiText.pre = <<"fence", "json">>
  /\ aiText.body = FullObject
  /\ aiText.post = <<"ws", "fence">>
  /\ aiResult = Return(JObj([k \in PromptKeys |-> Str("llm")]))

====
